---------------------------- MODULE Spec2Model ----------------------------
(***************************************************************************)
(* Model of the uni-schedule core: the calendar generator                  *)
(* (app/ical.py, generate_ics) and the timetable extractor                 *)
(* (app/parser.py, parse_programme_html).                                  *)
(*                                                                         *)
(* Strings are sequences of tokens.  A token is one character that the     *)
(* code treats specially ("\\", ";", ",", "LF", "CR", " ", "T", a digit),  *)
(* an ordinary character ("a", "b", ...), or a literal chunk of the        *)
(* program text that holds none of the special characters                  *)
(* ("BEGIN:VEVENT", "SUMMARY:", ...).                                      *)
(*                                                                         *)
(* Dates are day numbers counted from Monday 2025-12-01 (day 0).           *)
(* Times are minutes since midnight.                                       *)
(* An Optional value is <<>> (None) or <<v>>.                              *)
(***************************************************************************)
EXTENDS Integers, Sequences, FiniteSets, TLC

\* ------------------------------------------------------------------ bounds
MaxCourses == 2
MaxWeeks == 3
MaxLen == 4

\* --------------------------------------------------------- string helpers
IsPrefix(p, s) == Len(p) <= Len(s) /\ SubSeq(s, 1, Len(p)) = p

\* str.replace(old, new): leftmost, non-overlapping occurrences; old # ""
RECURSIVE Replace(_, _, _)
Replace(s, old, new) ==
    IF s = <<>> THEN <<>>
    ELSE IF IsPrefix(old, s)
         THEN new \o Replace(SubSeq(s, Len(old) + 1, Len(s)), old, new)
         ELSE <<Head(s)>> \o Replace(Tail(s), old, new)

\* sep.join(parts)
RECURSIVE Join(_, _)
Join(parts, sep) ==
    IF parts = <<>> THEN <<>>
    ELSE IF Len(parts) = 1 THEN parts[1]
    ELSE parts[1] \o sep \o Join(Tail(parts), sep)

DigitChar == <<"0", "1", "2", "3", "4", "5", "6", "7", "8", "9">>

D(n) == DigitChar[n + 1]

\* zero-padded two-digit field (%m, %d, %H, %M, %S)
D2(n) == <<D(n \div 10), D(n % 10)>>

\* str(n) for n >= 0
RECURSIVE Dec(_)
Dec(n) == IF n < 10 THEN <<D(n)>> ELSE Dec(n \div 10) \o <<D(n % 10)>>

\* code point of a character token (Python compares str by code point)
Ord(ch) ==
    CASE ch = "LF" -> 10
      [] ch = "CR" -> 13
      [] ch = " "  -> 32
      [] ch = ","  -> 44
      [] ch = ";"  -> 59
      [] ch = "\\" -> 92
      [] ch = "a"  -> 97
      [] ch = "b"  -> 98
      [] OTHER     -> 120

\* s < t for str
RECURSIVE StrLess(_, _)
StrLess(s, t) ==
    IF t = <<>> THEN FALSE
    ELSE IF s = <<>> THEN TRUE
    ELSE IF Ord(Head(s)) # Ord(Head(t)) THEN Ord(Head(s)) < Ord(Head(t))
    ELSE StrLess(Tail(s), Tail(t))

\* ---------------------------------------------------------------- calendar
\* Month lengths from December 2025 on: the part of the Gregorian calendar
\* the model's dates fall in.
MonthTable == << <<2025, 12, 31>>, <<2026, 1, 31>>, <<2026, 2, 28>>,
                 <<2026, 3, 31>>, <<2026, 4, 30>>, <<2026, 5, 31>>,
                 <<2026, 6, 30>>, <<2026, 7, 31>>, <<2026, 8, 31>> >>

RECURSIVE YmdFrom(_, _)
YmdFrom(d, m) ==
    IF d < MonthTable[m][3]
    THEN <<MonthTable[m][1], MonthTable[m][2], d + 1>>
    ELSE YmdFrom(d - MonthTable[m][3], m + 1)

\* (year, month, day) of day number d
Ymd(d) == YmdFrom(d, 1)

\* date.weekday(): Monday = 0; day 0 is a Monday
Weekday(d) == d % 7

\* strftime('%Y%m%d')
FormatDate(d) == Dec(Ymd(d)[1]) \o D2(Ymd(d)[2]) \o D2(Ymd(d)[3])

\* strftime('%H%M%S') of a time given in minutes since midnight
FormatTime(t) == D2(t \div 60) \o D2(t % 60) \o D2(0)

\* datetime.combine(d, t).strftime('%Y%m%dT%H%M%S')
FormatDateTime(d, t) == FormatDate(d) \o <<"T">> \o FormatTime(t)


\* str(n) for any integer n
Str(n) == IF n < 0 THEN <<"-">> \o Dec(0 - n) ELSE Dec(n)

\* ------------------------------------------------------------------ inputs
None == <<>>

Some(v) == <<v>>

MinWeeks == 0 - 1

\* Course (app/models.py): the fields generate_ics reads
Course(id, title, day, start, end, kind, room, instructors, url) ==
    [id |-> id, title |-> title, day |-> day, start |-> start, end |-> end,
     kind |-> kind, room |-> room, instructors |-> instructors, url |-> url]

\* The sessions the inputs are drawn from.  "Savvato" stands for a source
\* label that DAY_MAP does not map and that the extractor passes through.
Catalogue ==
    { Course(1, <<"a">>, "Monday", 540, 600, <<"Lec">>, Some(<<"r">>),
             << <<"i">> >>, None),
      Course(2, <<"a", ",", "b">>, "Sunday", 540, 660, <<"Lab">>,
             Some(<<";", "\\">>), << <<"i", ",">>, <<"j">> >>,
             Some(<<"u">>)),
      Course(1, <<"a", "LF", "b">>, "Tuesday", 0, 60, <<"Lec">>, None,
             <<>>, Some(<<>>)),
      Course(3, <<"b">>, "Savvato", 540, 600, <<"Lec">>, Some(<<"r">>),
             << <<"i">> >>, None),
      Course(4, <<"a">>, "Monday", 660, 720, <<"Lab">>,
             Some(<<"r", "CR", "LF", "BEGIN:VEVENT">>), << <<>> >>, None) }

CourseInputs == UNION {[1..n -> Catalogue] : n \in 0..MaxCourses}

\* holidays argument: None, or a list of inclusive (start, end) ranges
HolidayInputs ==
    { None,
      Some(<<>>),
      Some(<< <<7, 7>> >>),
      Some(<< <<7, 9>>, <<8, 15>> >>),
      Some(<< <<9, 7>>, <<0, 0>>, <<14, 14>> >>) }

\* start_date: Monday 2025-12-01, Sunday 2025-12-07, Thursday 2025-12-18
StartDates == {0, 6, 17}

\* uuid.uuid4().hex[:8]: the outcomes the model distinguishes
Suffixes == {"0a1b2c3d", "4e5f6a7b"}

\* -------------------------------------------------------------- generate_ics
VARIABLES courses, start_date, weeks, holidays_arg,
          pc, base_monday, holidays, lines, courses_list, ci,
          event_date, uid, teaching_dates, exdates, current_date, output

genVars == <<courses, start_date, weeks, holidays_arg,
             pc, base_monday, holidays, lines, courses_list, ci,
             event_date, uid, teaching_dates, exdates, current_date, output>>

\* esc applied on its own: the argument, the result, the result read back
VARIABLES esc_pc, esc_s, esc_out, esc_back

escVars == <<esc_pc, esc_s, esc_out, esc_back>>

\* parse_programme_html: the document, the position in it, the result
VARIABLES doc, p_pc, p_tab, p_heads, p_rows, p_day, p_year, all_courses, cid

parseVars == <<doc, p_pc, p_tab, p_heads, p_rows, p_day, p_year,
               all_courses, cid>>

\* parse_time_range applied on its own: the cell text and the result
VARIABLES tr_pc, tr_s, tr_out

trVars == <<tr_pc, tr_s, tr_out>>

\* the web process: the parsed timetable it loads, the in-memory store, the
\* persistence file and the first-load flag
VARIABLES timetable, COURSES, COURSES_BY_ID, persist, _loaded

rtVars == <<timetable, COURSES, COURSES_BY_ID, persist, _loaded>>

\* request threads: position, request, the local list being loaded, what a
\* reader saw, the holder of _lock, and how often the load body and
\* reset_schedule have started
VARIABLES t_pc, t_req, t_courses, t_seen, lock, load_runs, resets

thVars == <<t_pc, t_req, t_courses, t_seen, lock, load_runs, resets>>

webVars == <<trVars, rtVars, thVars>>

vars == <<genVars, escVars, parseVars, webVars>>

\* the state of a function that is not running
GenIdle ==
    /\ courses = <<>> /\ start_date = 0 /\ weeks = 0 /\ holidays_arg = None
    /\ pc = "idle" /\ base_monday = 0 /\ holidays = <<>> /\ lines = <<>>
    /\ courses_list = <<>> /\ ci = 0 /\ event_date = 0 /\ uid = <<>>
    /\ teaching_dates = <<>> /\ exdates = <<>> /\ current_date = 0
    /\ output = <<>>

EscIdle ==
    esc_pc = "idle" /\ esc_s = <<>> /\ esc_out = <<>> /\ esc_back = <<>>

ParseIdle ==
    /\ doc = <<>> /\ p_pc = "idle" /\ p_tab = 0 /\ p_heads = <<>>
    /\ p_rows = <<>> /\ p_day = "" /\ p_year = None /\ all_courses = <<>>
    /\ cid = 0

TimeIdle == tr_pc = "idle" /\ tr_s = <<>> /\ tr_out = None

\* the request threads of the process
Threads == {1, 2}

\* no persistence file on disk
NoFile == [exists |-> FALSE, legacy |-> FALSE, items |-> <<>>]

\* a process that has served no request: the module-level values
FreshProcess == COURSES = <<>> /\ COURSES_BY_ID = <<>> /\ _loaded = FALSE

RoutesIdle == timetable = <<>> /\ FreshProcess /\ persist = NoFile

ThreadsIdle ==
    /\ t_pc = [t \in Threads |-> "idle"]
    /\ t_req = [t \in Threads |-> ""]
    /\ t_courses = [t \in Threads |-> <<>>]
    /\ t_seen = [t \in Threads |-> None]
    /\ lock = 0 /\ load_runs = 0 /\ resets = 0

WebIdle == TimeIdle /\ RoutesIdle /\ ThreadsIdle

WEEKDAY_INDEX ==
    "Monday" :> 0 @@ "Tuesday" :> 1 @@ "Wednesday" :> 2 @@ "Thursday" :> 3
    @@ "Friday" :> 4 @@ "Saturday" :> 5 @@ "Sunday" :> 6

byday_map ==
    0 :> "MO" @@ 1 :> "TU" @@ 2 :> "WE" @@ 3 :> "TH" @@ 4 :> "FR"
    @@ 5 :> "SA" @@ 6 :> "SU"

\* WEEKDAY_INDEX.get(day) is not None
WeekdayKnown(day) == day \in DOMAIN WEEKDAY_INDEX

\* mutant: the difference of the weekdays taken the wrong way round
_next_date_Backwards(start, target_weekday) ==
    start + ((Weekday(start) - target_weekday) % 7)

_next_date(start, target_weekday) ==
    start + ((target_weekday - Weekday(start)) % 7)

BaseMonday(d) == d - Weekday(d)

DefaultHolidays == << <<22, 36>> >>

\* date.max, 9999-12-31, as a day number: adding a timedelta that passes it
\* raises OverflowError
DateMax == 2912473

is_holiday(hs, d) == \E k \in 1..Len(hs) : hs[k][1] <= d /\ d <= hs[k][2]

\* the day labels of the model in str order (c.day is compared as a str)
DayLabelOrder == <<"Friday", "Monday", "Saturday", "Savvato", "Sunday",
                   "Thursday", "Tuesday", "Wednesday">>

DayRank(day) == CHOOSE k \in 1..Len(DayLabelOrder) : DayLabelOrder[k] = day

\* (c.day, c.start, c.title) < (d.day, d.start, d.title)
KeyLess(c, d) ==
    IF c.day # d.day THEN DayRank(c.day) < DayRank(d.day)
    ELSE IF c.start # d.start THEN c.start < d.start
    ELSE StrLess(c.title, d.title)

\* insert c after every element whose key is <= key(c)
RECURSIVE InsertByKey(_, _)
InsertByKey(sorted, c) ==
    IF sorted = <<>> THEN <<c>>
    ELSE IF KeyLess(c, Head(sorted)) THEN <<c>> \o sorted
    ELSE <<Head(sorted)>> \o InsertByKey(Tail(sorted), c)

RECURSIVE InsertionSort(_)
InsertionSort(cs) ==
    IF cs = <<>> THEN <<>>
    ELSE InsertByKey(InsertionSort(SubSeq(cs, 1, Len(cs) - 1)), cs[Len(cs)])

\* mutant: the sessions are left in input order
SortCourses_Unsorted(cs) == cs

\* sorted(courses, key=lambda c: (c.day, c.start, c.title)): stable
SortCourses(cs) == InsertionSort(cs)

\* mutant: the backslash is escaped last, after the backslashes that escape
\* semicolons and commas are in the text
esc_BackslashLast(s) ==
    Replace(Replace(Replace(s, <<";">>, <<"\\", ";">>),
                    <<",">>, <<"\\", ",">>),
            <<"\\">>, <<"\\", "\\">>)

esc(s) ==
    Replace(Replace(Replace(s, <<"\\">>, <<"\\", "\\">>),
                    <<";">>, <<"\\", ";">>),
            <<",">>, <<"\\", ",">>)

\* c.room or ''
RoomOrEmpty(c) == IF c.room = None THEN <<>> ELSE c.room[1]

\* f'{c.room}'
RoomStr(c) == IF c.room = None THEN <<"None">> ELSE c.room[1]

Summary(c) == Replace(c.title, <<"LF">>, <<" ">>)

Location(c) == Replace(RoomOrEmpty(c), <<"LF">>, <<" ">>)

Instructors(c) == Join(c.instructors, <<",", " ">>)

Description(c) ==
    Join(<< <<"Type: ">> \o c.kind, <<"Room: ">> \o RoomStr(c) >>
         \o (IF Instructors(c) # <<>>
             THEN << <<"Instructors: ">> \o Instructors(c) >> ELSE <<>>)
         \o (IF c.url # None /\ c.url # Some(<<>>)
             THEN << <<"Link: ">> \o c.url[1] >> ELSE <<>>),
         <<"LF">>)

\* mutant: the session id is left out of the UID
Uid_NoId(c, suffix) == <<"-", suffix, "@uni-programme">>

Uid(c, suffix) == Str(c.id) \o <<"-", suffix, "@uni-programme">>

\* mutant: the holiday dates are not added to the count
TotalOccurrences_WeeksOnly(w, ex) == w

TotalOccurrences(w, ex) == w + Len(ex)

\* mutant: the time of day of the exception date is left at midnight
ExdateStamp_Midnight(hd, start) ==
    FormatDate(hd) \o <<"T", "0", "0", "0", "0", "0", "0">>

\* hd.strftime("%Y%m%dT%H%M%S").replace("T000000", "T" + start HHMMSS)
ExdateStamp(hd, start) ==
    Replace(FormatDate(hd) \o <<"T", "0", "0", "0", "0", "0", "0">>,
            <<"T", "0", "0", "0", "0", "0", "0">>,
            <<"T">> \o FormatTime(start))

HeaderLines ==
    << <<"BEGIN:VCALENDAR">>, <<"PRODID:-//Uni Programme Export//EN">>,
       <<"VERSION:2.0">>, <<"CALSCALE:GREGORIAN">>, <<"METHOD:PUBLISH">>,
       <<"X-WR-TIMEZONE:", "Europe/Athens">> >>

EventLines(c, u, ed, ex, w) ==
    << <<"BEGIN:VEVENT">>,
       <<"UID:">> \o u,
       <<"DTSTAMP:", "NOW">>,
       <<"DTSTART:">> \o FormatDateTime(ed, c.start),
       <<"DTEND:">> \o FormatDateTime(ed, c.end),
       <<"SUMMARY:">> \o esc(Summary(c)),
       <<"LOCATION:">> \o esc(Location(c)),
       <<"DESCRIPTION:">> \o esc(Description(c)),
       <<"RRULE:FREQ=WEEKLY;COUNT=">> \o Str(TotalOccurrences(w, ex))
           \o <<";BYDAY=", byday_map[WEEKDAY_INDEX[c.day]]>> >>
    \o [k \in 1..Len(ex) |-> <<"EXDATE:">> \o ExdateStamp(ex[k], c.start)]
    \o << <<"END:VEVENT">> >>

\* '\r\n'.join(lines) + '\r\n'
Document(ls) == Join(ls, <<"CR", "LF">>) \o <<"CR", "LF">>

GenInit ==
    /\ courses \in CourseInputs
    /\ start_date \in StartDates
    /\ weeks \in MinWeeks..MaxWeeks
    /\ holidays_arg \in HolidayInputs
    /\ pc = "start"
    /\ base_monday = 0
    /\ holidays = <<>>
    /\ lines = <<>>
    /\ courses_list = <<>>
    /\ ci = 0
    /\ event_date = 0
    /\ uid = <<>>
    /\ teaching_dates = <<>>
    /\ exdates = <<>>
    /\ current_date = 0
    /\ output = <<>>

\* lines 33-59: normalise the start date, default the holidays, write the
\* envelope header, sort the sessions
Begin ==
    /\ pc = "start"
    /\ base_monday' = BaseMonday(start_date)
    /\ holidays' = IF holidays_arg = None THEN DefaultHolidays
                   ELSE holidays_arg[1]
    /\ lines' = HeaderLines
    /\ courses_list' = SortCourses(courses)
    /\ ci' = 1
    /\ pc' = "loop"
    /\ UNCHANGED <<courses, start_date, weeks, holidays_arg, event_date, uid,
                   teaching_dates, exdates, current_date, output>>
    /\ UNCHANGED <<escVars, parseVars, webVars>>

\* mutant: an unknown day ends the loop (break for continue)
SkipCourse_Break ==
    /\ pc = "loop"
    /\ ci <= Len(courses_list)
    /\ ~WeekdayKnown(courses_list[ci].day)
    /\ ci' = Len(courses_list) + 1
    /\ UNCHANGED <<courses, start_date, weeks, holidays_arg, pc, base_monday,
                   holidays, lines, courses_list, event_date, uid,
                   teaching_dates, exdates, current_date, output>>
    /\ UNCHANGED <<escVars, parseVars, webVars>>

\* lines 62-64: a session whose day is not in WEEKDAY_INDEX is passed over
SkipCourse ==
    /\ pc = "loop"
    /\ ci <= Len(courses_list)
    /\ ~WeekdayKnown(courses_list[ci].day)
    /\ ci' = ci + 1
    /\ UNCHANGED <<courses, start_date, weeks, holidays_arg, pc, base_monday,
                   holidays, lines, courses_list, event_date, uid,
                   teaching_dates, exdates, current_date, output>>
    /\ UNCHANGED <<escVars, parseVars, webVars>>

\* lines 65-93: anchor date, UID, start of the holiday walk
StartEvent ==
    /\ pc = "loop"
    /\ ci <= Len(courses_list)
    /\ WeekdayKnown(courses_list[ci].day)
    /\ event_date' = _next_date(base_monday,
                                WEEKDAY_INDEX[courses_list[ci].day])
    /\ \E suffix \in Suffixes : uid' = Uid(courses_list[ci], suffix)
    /\ teaching_dates' = <<>>
    /\ exdates' = <<>>
    /\ current_date' = event_date'
    /\ pc' = "walk"
    /\ UNCHANGED <<courses, start_date, weeks, holidays_arg, base_monday,
                   holidays, lines, courses_list, ci, output>>
    /\ UNCHANGED <<escVars, parseVars, webVars>>

\* lines 94-99, holiday branch
WalkHoliday ==
    /\ pc = "walk"
    /\ Len(teaching_dates) < weeks
    /\ is_holiday(holidays, current_date)
    /\ current_date + 7 <= DateMax
    /\ exdates' = Append(exdates, current_date)
    /\ current_date' = current_date + 7
    /\ UNCHANGED <<courses, start_date, weeks, holidays_arg, pc, base_monday,
                   holidays, lines, courses_list, ci, event_date, uid,
                   teaching_dates, output>>
    /\ UNCHANGED <<escVars, parseVars, webVars>>

\* lines 94-99, teaching branch
WalkTeaching ==
    /\ pc = "walk"
    /\ Len(teaching_dates) < weeks
    /\ ~is_holiday(holidays, current_date)
    /\ current_date + 7 <= DateMax
    /\ teaching_dates' = Append(teaching_dates, current_date)
    /\ current_date' = current_date + 7
    /\ UNCHANGED <<courses, start_date, weeks, holidays_arg, pc, base_monday,
                   holidays, lines, courses_list, ci, event_date, uid,
                   exdates, output>>
    /\ UNCHANGED <<escVars, parseVars, webVars>>

\* lines 94-99 when current_date + timedelta(days=7) passes date.max: the
\* date is put on its list, the addition raises OverflowError and
\* generate_ics ends without a document.  With the start dates of Spec no
\* date comes near date.max; the step is taken in SpecWalk.
WalkOverflow ==
    /\ pc = "walk"
    /\ Len(teaching_dates) < weeks
    /\ current_date + 7 > DateMax
    /\ IF is_holiday(holidays, current_date)
       THEN /\ exdates' = Append(exdates, current_date)
            /\ UNCHANGED teaching_dates
       ELSE /\ teaching_dates' = Append(teaching_dates, current_date)
            /\ UNCHANGED exdates
    /\ pc' = "raised"
    /\ UNCHANGED <<courses, start_date, weeks, holidays_arg, base_monday,
                   holidays, lines, courses_list, ci, event_date, uid,
                   current_date, output>>
    /\ UNCHANGED <<escVars, parseVars, webVars>>

\* lines 101-117: the event block is appended to lines
EmitEvent ==
    /\ pc = "walk"
    /\ ~(Len(teaching_dates) < weeks)
    /\ lines' = lines \o EventLines(courses_list[ci], uid, event_date,
                                    exdates, weeks)
    /\ ci' = ci + 1
    /\ pc' = "loop"
    /\ UNCHANGED <<courses, start_date, weeks, holidays_arg, base_monday,
                   holidays, courses_list, event_date, uid, teaching_dates,
                   exdates, current_date, output>>
    /\ UNCHANGED <<escVars, parseVars, webVars>>

\* lines 119-120: close the envelope and join the lines
Finish ==
    /\ pc = "loop"
    /\ ci > Len(courses_list)
    /\ lines' = Append(lines, <<"END:VCALENDAR">>)
    /\ output' = Document(lines')
    /\ pc' = "done"
    /\ UNCHANGED <<courses, start_date, weeks, holidays_arg, base_monday,
                   holidays, courses_list, ci, event_date, uid,
                   teaching_dates, exdates, current_date>>
    /\ UNCHANGED <<escVars, parseVars, webVars>>

Init == GenInit /\ EscIdle /\ ParseIdle /\ WebIdle

Next ==
    \/ Begin
    \/ SkipCourse
    \/ StartEvent
    \/ WalkHoliday
    \/ WalkTeaching
    \/ EmitEvent
    \/ Finish

Spec == Init /\ [][Next]_vars

\* ------------------------------------------------ the holiday walk alone
\* The while loop of lines 91-99 from the anchor date of one event, for
\* anchor dates at the start of the term and in the last weeks date can hold.
WalkStarts == {0, 1, DateMax - 14, DateMax - 4}

\* the holiday ranges in force: none, one day, overlapping ranges, an
\* inverted range among others, the default break, a range to date.max
WalkHolidays ==
    { <<>>,
      << <<7, 7>> >>,
      << <<7, 9>>, <<8, 15>> >>,
      << <<9, 7>>, <<0, 0>>, <<14, 14>> >>,
      DefaultHolidays,
      << <<DateMax - 10, DateMax>> >> }

\* lines 91-93: the lists are empty and the walk is at the anchor date
InitWalk ==
    /\ courses = <<>> /\ start_date = 0 /\ holidays_arg = None
    /\ base_monday = 0 /\ lines = <<>> /\ courses_list = <<>> /\ ci = 0
    /\ uid = <<>> /\ output = <<>>
    /\ EscIdle
    /\ ParseIdle
    /\ WebIdle
    /\ weeks \in MinWeeks..MaxWeeks
    /\ holidays \in WalkHolidays
    /\ event_date \in WalkStarts
    /\ teaching_dates = <<>>
    /\ exdates = <<>>
    /\ current_date = event_date
    /\ pc = "walk"

\* lines 94 and 101: the loop condition fails and the walk is over
WalkEnd ==
    /\ pc = "walk"
    /\ ~(Len(teaching_dates) < weeks)
    /\ pc' = "walked"
    /\ UNCHANGED <<courses, start_date, weeks, holidays_arg, base_monday,
                   holidays, lines, courses_list, ci, event_date, uid,
                   teaching_dates, exdates, current_date, output>>
    /\ UNCHANGED <<escVars, parseVars, webVars>>

NextWalk ==
    \/ WalkHoliday
    \/ WalkTeaching
    \/ WalkOverflow
    \/ WalkEnd

SpecWalk == InitWalk /\ [][NextWalk]_vars

\* --------------------------------------------------------- esc on its own
\* the characters esc is applied to: the three it escapes and an ordinary one
EscAlphabet == {"\\", ";", ",", "a"}

EscInputs == UNION {[1..n -> EscAlphabet] : n \in 0..MaxLen}

InitEsc ==
    /\ GenIdle
    /\ ParseIdle
    /\ WebIdle
    /\ esc_pc = "in"
    /\ esc_s \in EscInputs
    /\ esc_out = <<>>
    /\ esc_back = <<>>

\* reading an escaped text from left to right: a backslash followed by a
\* character stands for that character
RECURSIVE Unescape(_)
Unescape(s) ==
    IF s = <<>> THEN <<>>
    ELSE IF Head(s) = "\\" /\ Len(s) >= 2
         THEN <<s[2]>> \o Unescape(SubSeq(s, 3, Len(s)))
         ELSE <<Head(s)>> \o Unescape(Tail(s))

\* ical.py line 84 applied to esc_s
EscApply ==
    /\ esc_pc = "in"
    /\ esc_out' = esc(esc_s)
    /\ esc_pc' = "escaped"
    /\ UNCHANGED <<esc_s, esc_back, genVars, parseVars, webVars>>

\* a reader of the calendar file undoes the escape
EscReadBack ==
    /\ esc_pc = "escaped"
    /\ esc_back' = Unescape(esc_out)
    /\ esc_pc' = "back"
    /\ UNCHANGED <<esc_s, esc_out, genVars, parseVars, webVars>>

NextEsc ==
    \/ EscApply
    \/ EscReadBack

SpecEsc == InitEsc /\ [][NextEsc]_vars

\* ---------------------------------------------------- parse_programme_html
\* The HTML document as BeautifulSoup presents it to the parser.
\*   doc        the div.tab_content containers, in document order
\*   a tab      [id, aria, items]: its id attribute (Optional), the text of
\*              the anchor its aria-labelledby names (Optional), and its
\*              headings and timetable tables in document order
\*   an item    [type |-> "h", text, rows |-> <<>>] or
\*              [type |-> "table", text |-> "", rows]
\*   a row      a tr: its class, its td cells
\* Greek day names are written in Latin letters; "EN" is the en dash.
DAY_MAP ==
    "Deutera" :> "Monday" @@ "Triti" :> "Tuesday" @@ "Tetarti" :> "Wednesday"
    @@ "Pempti" :> "Thursday" @@ "Paraskevi" :> "Friday"

\* the times of day strptime('%H:%M') reads, in minutes
TimeValue == "09:00" :> 540 @@ "11:00" :> 660 @@ "13:00" :> 780

\* str.strip() on a piece of the time cell
RECURSIVE StripLeft(_)
StripLeft(s) ==
    IF s # <<>> /\ Head(s) = " " THEN StripLeft(Tail(s)) ELSE s

RECURSIVE StripRight(_)
StripRight(s) ==
    IF s # <<>> /\ s[Len(s)] = " "
    THEN StripRight(SubSeq(s, 1, Len(s) - 1)) ELSE s

Strip(s) == StripRight(StripLeft(s))

\* str.split(sep) for a one-character sep
RECURSIVE SplitOn(_, _, _)
SplitOn(s, sep, cur) ==
    IF s = <<>> THEN <<cur>>
    ELSE IF Head(s) = sep THEN <<cur>> \o SplitOn(Tail(s), sep, <<>>)
    ELSE SplitOn(Tail(s), sep, Append(cur, Head(s)))

Contains(s, ch) == \E k \in 1..Len(s) : s[k] = ch

\* datetime.strptime(part, '%H:%M') succeeds
IsTime(part) == Len(part) = 1 /\ part[1] \in DOMAIN TimeValue

\* mutant: the earlier time is always returned first
parse_time_range_Sorted(s) ==
    LET pieces == IF Contains(s, "EN") THEN SplitOn(s, "EN", <<>>)
                  ELSE SplitOn(s, "-", <<>>)
        parts == [k \in 1..Len(pieces) |-> Strip(pieces[k])]
        a == TimeValue[parts[1][1]]
        b == TimeValue[parts[2][1]]
    IN  IF Len(parts) # 2 THEN None
        ELSE IF ~IsTime(parts[1]) \/ ~IsTime(parts[2]) THEN None
        ELSE IF a <= b THEN Some(<<a, b>>) ELSE Some(<<b, a>>)

\* parse_time_range: Some(<<start, end>>), or None where the code raises
parse_time_range(s) ==
    LET pieces == IF Contains(s, "EN") THEN SplitOn(s, "EN", <<>>)
                  ELSE SplitOn(s, "-", <<>>)
        parts == [k \in 1..Len(pieces) |-> Strip(pieces[k])]
    IN  IF Len(parts) # 2 THEN None
        ELSE IF ~IsTime(parts[1]) \/ ~IsTime(parts[2]) THEN None
        ELSE Some(<<TimeValue[parts[1][1]], TimeValue[parts[2][1]]>>)

Row(cls, ntd, time, link, href, text, kind, room, li_a, cell5) ==
    [cls |-> cls, ntd |-> ntd, time |-> time, link |-> link, href |-> href,
     text |-> text, kind |-> kind, room |-> room, li_a |-> li_a,
     cell5 |-> cell5]

HeaderRow == Row("", 0, <<>>, None, None, "", "", "", <<>>, "")

RowA == Row("sbody", 5, <<"09:00", " ", "EN", " ", "11:00">>, Some("Algebra"),
            Some("/algebra"), "Algebra", "Lecture", "A1", <<"Ioannou">>,
            "Ioannou")

RowB == Row("", 5, <<"11:00", "-", "13:00">>, None, None, "Physics", "Lab",
            "B2", <<>>, "Petrou")

RowC == Row("sbody", 6, <<"13:00", "EN", "09:00">>, Some("Logic"), None,
            "Logic", "Lecture", "A1", <<"Ioannou", "Petrou">>, "")

RowFew == Row("sbody", 4, <<"09:00", "EN", "11:00">>, None, None, "Short",
              "Lecture", "A1", <<>>, "")

RowBadTime == Row("", 5, <<"09:00", "EN", "25:00">>, None, None, "Late",
                  "Lecture", "A1", <<>>, "Petrou")

RowThreeTimes == Row("sbody", 5, <<"09:00", "-", "11:00", "-", "13:00">>,
                     None, None, "Long", "Lab", "B2", <<>>, "Petrou")

Heading(text) == [type |-> "h", text |-> text, rows |-> <<>>]

Table(rows) == [type |-> "table", text |-> "", rows |-> rows]

Tab(id, aria, items) == [id |-> id, aria |-> aria, items |-> items]

\* the containers the documents are built from: a day tab labelled through
\* aria-labelledby, a day tab labelled through the tab list, a year tab
\* with per-day headings, a tab with no label, a tab with two tables
TabCatalogue ==
    { Tab(Some("t1"), Some("Deutera"),
          <<Table(<<HeaderRow, RowA, RowFew, RowB>>)>>),
      Tab(Some("t2"), None,
          <<Table(<<HeaderRow, RowBadTime, RowB>>)>>),
      Tab(Some("y1"), None,
          <<Heading("Deutera"), Table(<<HeaderRow, RowA, RowThreeTimes>>),
            Heading("Notes"), Heading("Triti"), Heading("Pempti"),
            Table(<<HeaderRow, RowC>>)>>),
      Tab(None, None, <<Table(<<HeaderRow, RowFew>>)>>),
      Tab(Some("t9"), Some("Savvato"),
          <<Table(<<HeaderRow, RowB>>), Table(<<HeaderRow, RowBadTime>>)>>) }

MaxTabs == 2

DocInputs == UNION {[1..n -> TabCatalogue] : n \in 0..MaxTabs}

\* tab_day_map: tab id -> text of the tab list's link to it
TabDayMap == "t2" :> "Triti" @@ "y1" :> "Year 1" @@ "t9" :> "Paraskevi"

\* tab_day_map.get(tab_id, '') if tab_id else ''
TabLabel(tab) ==
    IF tab.id # None /\ tab.id[1] \in DOMAIN TabDayMap
    THEN TabDayMap[tab.id[1]] ELSE ""

\* indices of the headings of the tab whose text is a key of DAY_MAP
DayHeadings(tab) ==
    LET IsDay(k) == /\ tab.items[k].type = "h"
                    /\ tab.items[k].text \in DOMAIN DAY_MAP
        idx == [k \in 1..Len(tab.items) |-> k]
    IN  SelectSeq(idx, IsDay)

\* DAY_MAP.get(greek_day, greek_day)
DayOf(greek_day) ==
    IF greek_day \in DOMAIN DAY_MAP THEN DAY_MAP[greek_day] ELSE greek_day

\* h.find_next('table', class_='courses_timetable'): the first table after
\* item i of tab t in document order, in this tab or a later one
FindNextTable(d, t, i) ==
    LET places == UNION {{<<u, j>> : j \in 1..Len(d[u].items)} :
                             u \in t..Len(d)}
        after == {q \in places :
                     /\ d[q[1]].items[q[2]].type = "table"
                     /\ (q[1] > t \/ q[2] > i)}
    IN  IF after = {} THEN None
        ELSE Some(CHOOSE q \in after :
                      \A r \in after :
                          q[1] < r[1] \/ (q[1] = r[1] /\ q[2] <= r[2]))

IsSbody(r) == r.cls = "sbody"

\* table.select('tr.sbody') or table.select('tr')[1:]
TableRows(rows) ==
    IF SelectSeq(rows, IsSbody) # <<>> THEN SelectSeq(rows, IsSbody)
    ELSE IF rows = <<>> THEN <<>> ELSE Tail(rows)

\* every tr of every table of the tab, in document order
RECURSIVE AllRows(_)
AllRows(items) ==
    IF items = <<>> THEN <<>> ELSE Head(items).rows \o AllRows(Tail(items))

\* tab.select('table.courses_timetable tr.sbody'), or, when that is empty,
\* tab.select('table.courses_timetable tr')[1:]
TabRows(tab) == TableRows(AllRows(tab.items))

\* the record built from a row (lines 92-111 and 132-152); Course is called
\* with a year keyword, which the Course of models.py does not declare: the
\* record type is the CourseSession of the specification
ParsedCourse(id, tr, day, times, year) ==
    [id |-> id,
     title |-> IF tr.link # None THEN tr.link[1] ELSE tr.text,
     day |-> day, start |-> times[1], end |-> times[2],
     kind |-> tr.kind, room |-> tr.room,
     instructors |-> IF tr.li_a # <<>> THEN tr.li_a ELSE <<tr.cell5>>,
     original_html |-> tr,
     url |-> IF tr.link # None THEN tr.href ELSE None,
     year |-> year]

InitParse ==
    /\ GenIdle
    /\ EscIdle
    /\ WebIdle
    /\ doc \in DocInputs
    /\ p_pc = "tabs"
    /\ p_tab = 1
    /\ p_heads = <<>>
    /\ p_rows = <<>>
    /\ p_day = ""
    /\ p_year = None
    /\ all_courses = <<>>
    /\ cid = 1

\* mutant: the label of the tab list is preferred to the anchor text
FallbackGreekDay_TabLabelFirst(tab) ==
    IF TabLabel(tab) # "" THEN TabLabel(tab)
    ELSE IF tab.aria # None THEN tab.aria[1] ELSE ""

\* the label of the tab in the fallback branch (lines 67-69, 117-118)
FallbackGreekDay(tab) ==
    IF tab.aria # None /\ tab.aria[1] # "" THEN tab.aria[1] ELSE TabLabel(tab)

\* lines 63-75: a tab with day headings
TabWithHeadings ==
    /\ p_pc = "tabs"
    /\ p_tab <= Len(doc)
    /\ DayHeadings(doc[p_tab]) # <<>>
    /\ p_heads' = DayHeadings(doc[p_tab])
    /\ p_year' = IF TabLabel(doc[p_tab]) # "" THEN Some(TabLabel(doc[p_tab]))
                 ELSE None
    /\ p_pc' = "heads"
    /\ UNCHANGED <<doc, p_tab, p_rows, p_day, all_courses, cid>>
    /\ UNCHANGED <<genVars, escVars, webVars>>

\* lines 76-82: the next day heading and the table found after it
NextHeading ==
    /\ p_pc = "heads"
    /\ p_heads # <<>>
    /\ LET h == Head(p_heads)
           found == FindNextTable(doc, p_tab, h)
       IN  /\ p_day' = DayOf(doc[p_tab].items[h].text)
           /\ p_heads' = Tail(p_heads)
           /\ IF found = None
              THEN p_rows' = <<>> /\ p_pc' = "heads"
              ELSE /\ p_rows' = TableRows(
                          doc[found[1][1]].items[found[1][2]].rows)
                   /\ p_pc' = "hrows"
    /\ UNCHANGED <<doc, p_tab, p_year, all_courses, cid>>
    /\ UNCHANGED <<genVars, escVars, webVars>>

\* line 114: the headings of the tab are used up
HeadingsDone ==
    /\ p_pc = "heads"
    /\ p_heads = <<>>
    /\ p_tab' = p_tab + 1
    /\ p_pc' = "tabs"
    /\ UNCHANGED <<doc, p_heads, p_rows, p_day, p_year, all_courses, cid>>
    /\ UNCHANGED <<genVars, escVars, webVars>>

\* lines 116-122: a tab without day headings
TabFallback ==
    /\ p_pc = "tabs"
    /\ p_tab <= Len(doc)
    /\ DayHeadings(doc[p_tab]) = <<>>
    /\ p_day' = DayOf(FallbackGreekDay(doc[p_tab]))
    /\ p_year' = None
    /\ p_rows' = TabRows(doc[p_tab])
    /\ p_pc' = "rows"
    /\ UNCHANGED <<doc, p_tab, p_heads, all_courses, cid>>
    /\ UNCHANGED <<genVars, escVars, webVars>>

InRows == p_pc \in {"rows", "hrows"} /\ p_rows # <<>>

\* lines 85-86 and 125-126: a row with fewer than 5 td cells
RowTooFewCells ==
    /\ InRows
    /\ Head(p_rows).ntd < 5
    /\ p_rows' = Tail(p_rows)
    /\ UNCHANGED <<doc, p_pc, p_tab, p_heads, p_day, p_year, all_courses,
                   cid>>
    /\ UNCHANGED <<genVars, escVars, webVars>>

\* mutant: a row skipped for its time range still takes an id
RowBadTimeRange_TakesId ==
    /\ InRows
    /\ Head(p_rows).ntd >= 5
    /\ parse_time_range(Head(p_rows).time) = None
    /\ p_rows' = Tail(p_rows)
    /\ cid' = cid + 1
    /\ UNCHANGED <<doc, p_pc, p_tab, p_heads, p_day, p_year, all_courses>>
    /\ UNCHANGED <<genVars, escVars, webVars>>

\* lines 88-91 and 128-131: parse_time_range raises
RowBadTimeRange ==
    /\ InRows
    /\ Head(p_rows).ntd >= 5
    /\ parse_time_range(Head(p_rows).time) = None
    /\ p_rows' = Tail(p_rows)
    /\ UNCHANGED <<doc, p_pc, p_tab, p_heads, p_day, p_year, all_courses,
                   cid>>
    /\ UNCHANGED <<genVars, escVars, webVars>>

\* lines 92-113 and 132-154: a record is appended and takes the next id
RowRecord ==
    /\ InRows
    /\ Head(p_rows).ntd >= 5
    /\ parse_time_range(Head(p_rows).time) # None
    /\ all_courses' = Append(all_courses,
           ParsedCourse(cid, Head(p_rows), p_day,
                        parse_time_range(Head(p_rows).time)[1], p_year))
    /\ cid' = cid + 1
    /\ p_rows' = Tail(p_rows)
    /\ UNCHANGED <<doc, p_pc, p_tab, p_heads, p_day, p_year>>
    /\ UNCHANGED <<genVars, escVars, webVars>>

\* the rows of the table of a heading are used up: on to the next heading
HeadingRowsDone ==
    /\ p_pc = "hrows"
    /\ p_rows = <<>>
    /\ p_pc' = "heads"
    /\ UNCHANGED <<doc, p_tab, p_heads, p_rows, p_day, p_year, all_courses,
                   cid>>
    /\ UNCHANGED <<genVars, escVars, webVars>>

\* the rows of a tab without headings are used up: on to the next tab
TabRowsDone ==
    /\ p_pc = "rows"
    /\ p_rows = <<>>
    /\ p_tab' = p_tab + 1
    /\ p_pc' = "tabs"
    /\ UNCHANGED <<doc, p_heads, p_rows, p_day, p_year, all_courses, cid>>
    /\ UNCHANGED <<genVars, escVars, webVars>>

\* line 155: return all_courses
ParseReturn ==
    /\ p_pc = "tabs"
    /\ p_tab > Len(doc)
    /\ p_pc' = "done"
    /\ UNCHANGED <<doc, p_tab, p_heads, p_rows, p_day, p_year, all_courses,
                   cid>>
    /\ UNCHANGED <<genVars, escVars, webVars>>

NextParse ==
    \/ TabWithHeadings
    \/ NextHeading
    \/ HeadingsDone
    \/ TabFallback
    \/ RowTooFewCells
    \/ RowBadTimeRange
    \/ RowRecord
    \/ HeadingRowsDone
    \/ TabRowsDone
    \/ ParseReturn

SpecParse == InitParse /\ [][NextParse]_vars

\* ------------------------------------------- parse_time_range on its own
\* the pieces a time cell is made of: two readable times, one that strptime
\* rejects, both separators and the blank
TimeAlphabet == {"09:00", "11:00", "25:00", "EN", "-", " "}

TimeInputs == UNION {[1..n -> TimeAlphabet] : n \in 0..MaxLen}

InitTime ==
    /\ GenIdle
    /\ EscIdle
    /\ ParseIdle
    /\ RoutesIdle
    /\ ThreadsIdle
    /\ tr_pc = "call"
    /\ tr_s \in TimeInputs
    /\ tr_out = None

\* lines 20-31: both parts are read and returned
TimeReturn ==
    /\ tr_pc = "call"
    /\ parse_time_range(tr_s) # None
    /\ tr_out' = parse_time_range(tr_s)
    /\ tr_pc' = "returned"
    /\ UNCHANGED <<tr_s, rtVars, thVars, genVars, escVars, parseVars>>

\* lines 27-30: ValueError from the part count or from strptime
TimeRaise ==
    /\ tr_pc = "call"
    /\ parse_time_range(tr_s) = None
    /\ tr_pc' = "raised"
    /\ UNCHANGED <<tr_s, tr_out, rtVars, thVars, genVars, escVars, parseVars>>

NextTime ==
    \/ TimeReturn
    \/ TimeRaise

SpecTime == InitTime /\ [][NextTime]_vars

\* ------------------------------------------------------- the web process
\* routes.py keeps the parsed sessions in COURSES and COURSES_BY_ID and the
\* active flags in a JSON file.  A session is the record of
\* parse_programme_html together with the two fields the routes use, active
\* and requirement; COURSES_BY_ID maps an id to the place of its session in
\* COURSES, the two holding the same objects.
Session(id, title, day, start, end, kind, room, instructors, url, year) ==
    [id |-> id, title |-> title, day |-> day, start |-> start, end |-> end,
     kind |-> kind, room |-> room, instructors |-> instructors, url |-> url,
     year |-> year, active |-> TRUE, requirement |-> ""]

\* the sessions a published timetable is made of: two of one title in
\* different years, a third of another title, a fourth without a year
SessionCatalogue ==
    << Session(1, "Algebra", "Monday", 540, 660, "Lecture", "A1",
               <<"Ioannou">>, Some("/algebra"), Some("Year 1")),
       Session(2, "Algebra", "Tuesday", 540, 660, "Lab", "L1",
               <<"Petrou">>, Some("/algebra"), Some("Year 2")),
       Session(3, "Physics", "Monday", 660, 780, "Lecture", "A2",
               <<"Petrou">>, None, Some("Year 1")),
       Session(4, "Logic", "Friday", 540, 660, "Lab", "L1",
               <<"Ioannou">>, None, None) >>

MaxSessions == 3

\* cid = 1, then cid += 1 for each record: the k-th session has id k
Renumber(cs) == [k \in 1..Len(cs) |-> [cs[k] EXCEPT !.id = k]]

\* the timetables the site may publish: sessions of the catalogue, none
\* twice, in any order
TimetableInputs ==
    LET picks == UNION {[1..n -> 1..Len(SessionCatalogue)] :
                            n \in 0..MaxSessions}
        once == {p \in picks :
                    \A i, j \in 1..Len(p) : p[i] = p[j] => i = j}
    IN  {Renumber([k \in 1..Len(p) |-> SessionCatalogue[p[k]]]) : p \in once}

\* the ids a request can name: those of the sessions and one beyond them
CourseIds == 1..MaxSessions + 1

YearLabels == {"", "Year 1", "Year 2", "Year 9"}

KindLabels == {"", "Lecture", "Lab"}

RequirementLabels == {"", "required", "elective", "optional"}

\* str.lower() on the texts of the timetable
Lower(s) ==
    CASE s = "Algebra" -> "algebra" [] s = "Physics" -> "physics"
      [] s = "Logic" -> "logic" [] s = "Monday" -> "monday"
      [] s = "Tuesday" -> "tuesday" [] s = "Friday" -> "friday"
      [] s = "Lecture" -> "lecture" [] s = "Lab" -> "lab"
      [] s = "A1" -> "a1" [] s = "A2" -> "a2" [] s = "L1" -> "l1"
      [] OTHER -> s

\* strftime('%H:%M'): hour and minute
HHMM(t) == <<t \div 60, t % 60>>

\* _course_key: the six fields joined with '|', lower-cased
_course_key(title, day, start, end, kind, room) ==
    <<Lower(title), Lower(day), start, end, Lower(kind), Lower(room)>>

_course_key_from_course(c) ==
    _course_key(c.title, c.day, HHMM(c.start), HHMM(c.end), c.kind, c.room)

\* one entry of the 'courses' list _save_state writes
SavedItem(c) ==
    [id |-> c.id, title |-> c.title, day |-> c.day, start |-> HHMM(c.start),
     end |-> HHMM(c.end), kind |-> c.kind, room |-> c.room,
     instructors |-> c.instructors, url |-> c.url, year |-> c.year,
     active |-> c.active, requirement |-> c.requirement]

ItemKey(item) ==
    _course_key(item.title, item.day, item.start, item.end, item.kind,
                item.room)

\* _save_state: the file written from the list COURSES holds at the call
_save_state(cs) ==
    [exists |-> TRUE, legacy |-> FALSE,
     items |-> [k \in 1..Len(cs) |-> SavedItem(cs[k])]]

\* a file of the older format: a 'remaining' list and no 'courses' list
LegacyFile ==
    [exists |-> TRUE, legacy |-> TRUE,
     items |-> <<SavedItem(SessionCatalogue[1])>>]

\* the keys of active_by_key after the file is read
SavedKeys(f) == {ItemKey(f.items[k]) : k \in 1..Len(f.items)}

\* the last entry of the file with the key
LastWithKey(f, key) ==
    f.items[CHOOSE k \in 1..Len(f.items) :
                /\ ItemKey(f.items[k]) = key
                /\ \A m \in k + 1..Len(f.items) : ItemKey(f.items[m]) # key]

\* the requirement the best-effort lookups find for a title, "" for none
FetchedRequirement(title) == IF title = "Physics" THEN "required" ELSE ""

\* the list ensure_loaded builds: the timetable with the saved flags and
\* requirements applied by key, then the looked-up requirement, then
\* 'elective'
LoadedCourses(f, tt) ==
    [k \in 1..Len(tt) |->
        LET c == tt[k]
            key == _course_key_from_course(c)
            saved == f.exists /\ key \in SavedKeys(f)
            act == IF saved
                   THEN (IF f.legacy THEN TRUE ELSE LastWithKey(f, key).active)
                   ELSE IF f.exists /\ f.legacy THEN FALSE ELSE c.active
            req == IF /\ saved /\ ~f.legacy
                      /\ LastWithKey(f, key).requirement
                             \in {"required", "elective"}
                   THEN LastWithKey(f, key).requirement
                   ELSE IF FetchedRequirement(c.title) # ""
                   THEN FetchedRequirement(c.title)
                   ELSE "elective"
        IN  [c EXCEPT !.active = act, !.requirement = req]]

\* COURSES_BY_ID after 'for c in courses: COURSES_BY_ID[c.id] = c'
ById(cs) ==
    [i \in {cs[k].id : k \in 1..Len(cs)} |->
        CHOOSE k \in 1..Len(cs) :
            cs[k].id = i /\ \A m \in k + 1..Len(cs) : cs[m].id # i]

\* ensure_loaded, run to its end by one request: the store and the file as
\* they are when it returns.  _save_state runs before COURSES is refilled.
CoursesLoaded ==
    IF _loaded THEN COURSES ELSE LoadedCourses(persist, timetable)

ByIdLoaded == IF _loaded THEN COURSES_BY_ID ELSE ById(CoursesLoaded)

FileLoaded == IF _loaded THEN persist ELSE _save_state(COURSES)

\* a handler that leaves cs in COURSES and calls _save_state iff saved
Handled(cs, saved) ==
    /\ COURSES' = cs
    /\ COURSES_BY_ID' = ByIdLoaded
    /\ persist' = IF saved THEN _save_state(cs) ELSE FileLoaded
    /\ _loaded' = TRUE
    /\ UNCHANGED <<timetable, trVars, thVars, genVars, escVars, parseVars>>

InitRoutes ==
    /\ GenIdle
    /\ EscIdle
    /\ ParseIdle
    /\ TimeIdle
    /\ ThreadsIdle
    /\ timetable \in TimetableInputs
    /\ FreshProcess
    /\ persist \in {NoFile, LegacyFile}

\* a read-only handler: ensure_loaded, then the list is read
api_courses == Handled(CoursesLoaded, FALSE)

\* mutant: only the session named by the id is toggled
remove_course_TargetOnly(course_id) ==
    IF course_id \in DOMAIN ByIdLoaded
    THEN LET target == CoursesLoaded[ByIdLoaded[course_id]]
             new_state == ~target.active
         IN  Handled([k \in 1..Len(CoursesLoaded) |->
                         IF CoursesLoaded[k].id = course_id
                         THEN [CoursesLoaded[k] EXCEPT !.active = new_state]
                         ELSE CoursesLoaded[k]], TRUE)
    ELSE Handled(CoursesLoaded, FALSE)

\* remove_course: the title group of the session takes the negated flag
remove_course(course_id) ==
    IF course_id \in DOMAIN ByIdLoaded
    THEN LET target == CoursesLoaded[ByIdLoaded[course_id]]
             new_state == ~target.active
         IN  Handled([k \in 1..Len(CoursesLoaded) |->
                         IF CoursesLoaded[k].title = target.title
                         THEN [CoursesLoaded[k] EXCEPT !.active = new_state]
                         ELSE CoursesLoaded[k]], TRUE)
    ELSE Handled(CoursesLoaded, FALSE)

\* c.year == label, c.kind == label, c.requirement == label
FieldIs(c, field, label) ==
    IF field = "year" THEN c.year = Some(label) ELSE c[field] = label

\* mutant: the flag of every session is set
SetActive_Everywhere(cs, field, label, value) ==
    [k \in 1..Len(cs) |-> [cs[k] EXCEPT !.active = value]]

\* for c in COURSES: if c.<field> == label: c.active = value
SetActive(cs, field, label, value) ==
    [k \in 1..Len(cs) |->
        IF FieldIs(cs[k], field, label) THEN [cs[k] EXCEPT !.active = value]
        ELSE cs[k]]

disable_year(year_label) ==
    IF year_label # ""
    THEN Handled(SetActive(CoursesLoaded, "year", year_label, FALSE), TRUE)
    ELSE Handled(CoursesLoaded, FALSE)

enable_year(year_label) ==
    IF year_label # ""
    THEN Handled(SetActive(CoursesLoaded, "year", year_label, TRUE), TRUE)
    ELSE Handled(CoursesLoaded, FALSE)

disable_kind(kind_label) ==
    IF kind_label # ""
    THEN Handled(SetActive(CoursesLoaded, "kind", kind_label, FALSE), TRUE)
    ELSE Handled(CoursesLoaded, FALSE)

enable_kind(kind_label) ==
    IF kind_label # ""
    THEN Handled(SetActive(CoursesLoaded, "kind", kind_label, TRUE), TRUE)
    ELSE Handled(CoursesLoaded, FALSE)

disable_requirement(req_label) ==
    IF req_label \in {"required", "elective"}
    THEN Handled(SetActive(CoursesLoaded, "requirement", req_label, FALSE),
                 TRUE)
    ELSE Handled(CoursesLoaded, FALSE)

enable_requirement(req_label) ==
    IF req_label \in {"required", "elective"}
    THEN Handled(SetActive(CoursesLoaded, "requirement", req_label, TRUE),
                 TRUE)
    ELSE Handled(CoursesLoaded, FALSE)

\* reset_schedule: the file is unlinked, _loaded is cleared and ensure_loaded
\* runs: it saves the list COURSES still holds, then refills COURSES
reset_schedule ==
    /\ COURSES' = LoadedCourses(NoFile, timetable)
    /\ COURSES_BY_ID' = ById(COURSES')
    /\ persist' = _save_state(COURSES)
    /\ _loaded' = TRUE
    /\ UNCHANGED <<timetable, trVars, thVars, genVars, escVars, parseVars>>

\* the process ends and a new one serves its first request: the module-level
\* values, then ensure_loaded against the file the old process left
Restart ==
    /\ COURSES' = LoadedCourses(persist, timetable)
    /\ COURSES_BY_ID' = ById(COURSES')
    /\ persist' = _save_state(<<>>)
    /\ _loaded' = TRUE
    /\ UNCHANGED <<timetable, trVars, thVars, genVars, escVars, parseVars>>

NextRoutes ==
    \/ api_courses
    \/ \E id \in CourseIds : remove_course(id)
    \/ \E l \in YearLabels : disable_year(l)
    \/ \E l \in YearLabels : enable_year(l)
    \/ \E l \in KindLabels : disable_kind(l)
    \/ \E l \in KindLabels : enable_kind(l)
    \/ \E l \in RequirementLabels : disable_requirement(l)
    \/ \E l \in RequirementLabels : enable_requirement(l)
    \/ reset_schedule
    \/ Restart

SpecRoutes == InitRoutes /\ [][NextRoutes]_vars

\* ------------------------------------------------------- request threads
\* Two request threads of one process.  A thread serves a read request
\* (ensure_loaded, then the list is read) or a reset request (reset_schedule:
\* unlink, _loaded = False, ensure_loaded, then the list is read).  The steps
\* are the statements of ensure_loaded between which the interpreter can
\* switch threads; only the load body is under _lock.
MaxResets == 1

\* the timetables of the catalogue in catalogue order
ThreadTimetables ==
    {tt \in TimetableInputs : tt = SubSeq(SessionCatalogue, 1, Len(tt))}

InitThreads ==
    /\ GenIdle
    /\ EscIdle
    /\ ParseIdle
    /\ TimeIdle
    /\ ThreadsIdle
    /\ timetable \in ThreadTimetables
    /\ FreshProcess
    /\ persist = NoFile

Others == <<trVars, genVars, escVars, parseVars>>

\* a handler that reads the list is entered: ensure_loaded() is called
StartRead(t) ==
    /\ t_pc[t] = "idle"
    /\ t_req' = [t_req EXCEPT ![t] = "read"]
    /\ t_seen' = [t_seen EXCEPT ![t] = None]
    /\ t_pc' = [t_pc EXCEPT ![t] = "check"]
    /\ UNCHANGED <<rtVars, t_courses, lock, load_runs, resets, Others>>

\* reset_schedule is entered
StartReset(t) ==
    /\ t_pc[t] = "idle"
    /\ resets < MaxResets
    /\ resets' = resets + 1
    /\ t_req' = [t_req EXCEPT ![t] = "reset"]
    /\ t_seen' = [t_seen EXCEPT ![t] = None]
    /\ t_pc' = [t_pc EXCEPT ![t] = "unlink"]
    /\ UNCHANGED <<rtVars, t_courses, lock, load_runs, Others>>

\* PERSIST_FILE.unlink()
Unlink(t) ==
    /\ t_pc[t] = "unlink"
    /\ persist' = NoFile
    /\ t_pc' = [t_pc EXCEPT ![t] = "unload"]
    /\ UNCHANGED <<timetable, COURSES, COURSES_BY_ID, _loaded, t_req,
                   t_courses, t_seen, lock, load_runs, resets, Others>>

\* _loaded = False, then ensure_loaded() is called
Unload(t) ==
    /\ t_pc[t] = "unload"
    /\ _loaded' = FALSE
    /\ t_pc' = [t_pc EXCEPT ![t] = "check"]
    /\ UNCHANGED <<timetable, COURSES, COURSES_BY_ID, persist, t_req,
                   t_courses, t_seen, lock, load_runs, resets, Others>>

\* 'if not _loaded:' outside the lock
CheckLoaded(t) ==
    /\ t_pc[t] = "check"
    /\ t_pc' = [t_pc EXCEPT ![t] = IF _loaded THEN "read" ELSE "acquire"]
    /\ UNCHANGED <<rtVars, t_req, t_courses, t_seen, lock, load_runs, resets,
                   Others>>

\* 'with _lock:' is entered
Acquire(t) ==
    /\ t_pc[t] = "acquire"
    /\ lock = 0
    /\ lock' = t
    /\ t_pc' = [t_pc EXCEPT ![t] = "recheck"]
    /\ UNCHANGED <<rtVars, t_req, t_courses, t_seen, load_runs, resets,
                   Others>>

\* mutant: the flag is not looked at again under the lock
Recheck_Skipped(t) ==
    /\ t_pc[t] = "recheck"
    /\ t_pc' = [t_pc EXCEPT ![t] = "load"]
    /\ UNCHANGED <<rtVars, t_req, t_courses, t_seen, lock, load_runs, resets,
                   Others>>

\* 'if not _loaded:' under the lock
Recheck(t) ==
    /\ t_pc[t] = "recheck"
    /\ t_pc' = [t_pc EXCEPT ![t] = IF _loaded THEN "release" ELSE "load"]
    /\ UNCHANGED <<rtVars, t_req, t_courses, t_seen, lock, load_runs, resets,
                   Others>>

\* lines 356-449: the file is read, the timetable fetched and parsed, the
\* flags and requirements applied to the local list
LoadBody(t) ==
    /\ t_pc[t] = "load"
    /\ t_courses' = [t_courses EXCEPT ![t] = LoadedCourses(persist, timetable)]
    /\ load_runs' = load_runs + 1
    /\ t_pc' = [t_pc EXCEPT ![t] = "save"]
    /\ UNCHANGED <<rtVars, t_req, t_seen, lock, resets, Others>>

\* line 450: _save_state()
SaveState(t) ==
    /\ t_pc[t] = "save"
    /\ persist' = _save_state(COURSES)
    /\ t_pc' = [t_pc EXCEPT ![t] = "clear"]
    /\ UNCHANGED <<timetable, COURSES, COURSES_BY_ID, _loaded, t_req,
                   t_courses, t_seen, lock, load_runs, resets, Others>>

\* line 451: COURSES.clear()
ClearCourses(t) ==
    /\ t_pc[t] = "clear"
    /\ COURSES' = <<>>
    /\ t_pc' = [t_pc EXCEPT ![t] = "clear_ids"]
    /\ UNCHANGED <<timetable, COURSES_BY_ID, persist, _loaded, t_req,
                   t_courses, t_seen, lock, load_runs, resets, Others>>

\* line 452: COURSES_BY_ID.clear()
ClearById(t) ==
    /\ t_pc[t] = "clear_ids"
    /\ COURSES_BY_ID' = <<>>
    /\ t_pc' = [t_pc EXCEPT ![t] = "append"]
    /\ UNCHANGED <<timetable, COURSES, persist, _loaded, t_req, t_courses,
                   t_seen, lock, load_runs, resets, Others>>

\* line 454: COURSES.append(c)
AppendCourse(t) ==
    /\ t_pc[t] = "append"
    /\ t_courses[t] # <<>>
    /\ COURSES' = Append(COURSES, Head(t_courses[t]))
    /\ t_pc' = [t_pc EXCEPT ![t] = "index"]
    /\ UNCHANGED <<timetable, COURSES_BY_ID, persist, _loaded, t_req,
                   t_courses, t_seen, lock, load_runs, resets, Others>>

\* line 455: COURSES_BY_ID[c.id] = c
IndexCourse(t) ==
    /\ t_pc[t] = "index"
    /\ COURSES_BY_ID' =
           [i \in DOMAIN COURSES_BY_ID \cup {Head(t_courses[t]).id} |->
               IF i = Head(t_courses[t]).id THEN Len(COURSES)
               ELSE COURSES_BY_ID[i]]
    /\ t_courses' = [t_courses EXCEPT ![t] = Tail(t_courses[t])]
    /\ t_pc' = [t_pc EXCEPT ![t] = "append"]
    /\ UNCHANGED <<timetable, COURSES, persist, _loaded, t_req, t_seen, lock,
                   load_runs, resets, Others>>

\* line 456: _loaded = True
SetLoaded(t) ==
    /\ t_pc[t] = "append"
    /\ t_courses[t] = <<>>
    /\ _loaded' = TRUE
    /\ t_pc' = [t_pc EXCEPT ![t] = "release"]
    /\ UNCHANGED <<timetable, COURSES, COURSES_BY_ID, persist, t_req,
                   t_courses, t_seen, lock, load_runs, resets, Others>>

\* the with block is left and ensure_loaded returns
Release(t) ==
    /\ t_pc[t] = "release"
    /\ lock' = 0
    /\ t_pc' = [t_pc EXCEPT ![t] = "read"]
    /\ UNCHANGED <<rtVars, t_req, t_courses, t_seen, load_runs, resets,
                   Others>>

\* active_courses() / visible_courses(): the handler reads COURSES
ReadCourses(t) ==
    /\ t_pc[t] = "read"
    /\ t_seen' = [t_seen EXCEPT ![t] = Some(COURSES)]
    /\ t_pc' = [t_pc EXCEPT ![t] = "idle"]
    /\ UNCHANGED <<rtVars, t_req, t_courses, lock, load_runs, resets, Others>>

NextThreads ==
    \E t \in Threads :
        \/ StartRead(t)
        \/ StartReset(t)
        \/ Unlink(t)
        \/ Unload(t)
        \/ CheckLoaded(t)
        \/ Acquire(t)
        \/ Recheck(t)
        \/ LoadBody(t)
        \/ SaveState(t)
        \/ ClearCourses(t)
        \/ ClearById(t)
        \/ AppendCourse(t)
        \/ IndexCourse(t)
        \/ SetLoaded(t)
        \/ Release(t)
        \/ ReadCourses(t)

SpecThreads == InitThreads /\ [][NextThreads]_vars

\* ------------------------------------------------- reading the document
\* The claims are stated on what generate_ics wrote: the helpers below read
\* the event blocks back from the list of lines and from the joined text.

DigitVal(ch) == CHOOSE n \in 0..9 : D(n) = ch

RECURSIVE ParseDec(_)
ParseDec(ds) ==
    IF Len(ds) = 1 THEN DigitVal(ds[1])
    ELSE 10 * ParseDec(SubSeq(ds, 1, Len(ds) - 1)) + DigitVal(ds[Len(ds)])

ParseInt(ds) == IF Head(ds) = "-" THEN 0 - ParseDec(Tail(ds)) ELSE ParseDec(ds)

RECURSIVE DaysBefore(_)
DaysBefore(m) == IF m = 1 THEN 0 ELSE DaysBefore(m - 1) + MonthTable[m - 1][3]

\* the day number of the date written YYYYMMDD
ParseDate(ds) ==
    LET m == CHOOSE m \in 1..Len(MonthTable) :
                 /\ MonthTable[m][1] = ParseDec(SubSeq(ds, 1, 4))
                 /\ MonthTable[m][2] = ParseDec(SubSeq(ds, 5, 6))
    IN  DaysBefore(m) + ParseDec(SubSeq(ds, 7, 8)) - 1

\* indices of the lines that open an event block
EventStarts(ls) == {i \in 1..Len(ls) : ls[i] = <<"BEGIN:VEVENT">>}

\* index of the line that closes the block opened at line i
BlockEnd(ls, i) ==
    CHOOSE j \in (i + 1)..Len(ls) :
        /\ ls[j] = <<"END:VEVENT">>
        /\ \A k \in (i + 1)..(j - 1) : ls[k] # <<"END:VEVENT">>

\* the value of the property named by prefix in the block opened at line i
Prop(ls, i, prefix) ==
    LET k == CHOOSE k \in (i + 1)..BlockEnd(ls, i) : Head(ls[k]) = prefix
    IN  Tail(ls[k])

\* the EXDATE values of the block opened at line i, in order
BlockExdates(ls, i) ==
    LET body == SubSeq(ls, i + 1, BlockEnd(ls, i))
        IsEx(l) == Head(l) = "EXDATE:"
        sel == SelectSeq(body, IsEx)
    IN  [k \in 1..Len(sel) |-> Tail(sel[k])]

\* COUNT of the block's RRULE
BlockCount(ls, i) ==
    LET v == Prop(ls, i, "RRULE:FREQ=WEEKLY;COUNT=")
    IN  ParseInt(SubSeq(v, 1, Len(v) - 2))

\* BYDAY of the block's RRULE
BlockByday(ls, i) ==
    LET v == Prop(ls, i, "RRULE:FREQ=WEEKLY;COUNT=") IN v[Len(v)]

\* date of the block's DTSTART
BlockAnchor(ls, i) == ParseDate(SubSeq(Prop(ls, i, "DTSTART:"), 1, 8))

\* T and time of day of the block's DTSTART
BlockStartTime(ls, i) == SubSeq(Prop(ls, i, "DTSTART:"), 9, 15)

\* the weekly occurrences anchor, anchor + 7, ... that the RRULE stands for
Occurrences(ls, i) ==
    {BlockAnchor(ls, i) + 7 * k : k \in 0..(BlockCount(ls, i) - 1)}

HolidayOccurrences(ls, i) ==
    {d \in Occurrences(ls, i) : is_holiday(holidays, d)}

\* the index of the k-th event block (k = 1, 2, ...)
NthStart(ls, k) ==
    CHOOSE i \in EventStarts(ls) :
        Cardinality({j \in EventStarts(ls) : j <= i}) = k

NumBlocks(ls) == Cardinality(EventStarts(ls))

\* ------------------------------------------------------------------- C1
\* C1: for every emitted session, with weeks >= 1, the RRULE COUNT equals
\* weeks plus the number of EXDATE lines, which is the number of holiday
\* dates among the COUNT weekly occurrences, and exactly `weeks` of those
\* occurrences are in no holiday range; with no holiday met COUNT = weeks and
\* there is no EXDATE line.
C1_CountIsWeeksPlusHolidays ==
    pc = "done" /\ weeks >= 1 =>
        \A i \in EventStarts(lines) :
            /\ BlockCount(lines, i)
                   = weeks + Cardinality(HolidayOccurrences(lines, i))
            /\ Len(BlockExdates(lines, i))
                   = Cardinality(HolidayOccurrences(lines, i))
            /\ Cardinality(Occurrences(lines, i)
                           \ HolidayOccurrences(lines, i)) = weeks

\* a block with weeks = 3 whose second occurrence is a holiday: COUNT = 4
C1_Witness ==
    /\ pc = "done"
    /\ weeks = 3
    /\ \E i \in EventStarts(lines) :
           /\ BlockCount(lines, i) = 4
           /\ HolidayOccurrences(lines, i) = {BlockAnchor(lines, i) + 7}

\* ------------------------------------------------------------------- C2
\* C2: the EXDATE lines of a block are exactly the occurrences anchor + 7k
\* (0 <= k < COUNT) that lie in a holiday range, one line per date, each
\* with the anchor's weekday and the time of day of DTSTART.
C2_ExdatesAreHolidayOccurrences ==
    pc = "done" =>
    \A i \in EventStarts(lines) :
        LET ex == BlockExdates(lines, i)
        IN  /\ {ex[k] : k \in 1..Len(ex)}
                   = {FormatDate(d) \o BlockStartTime(lines, i) :
                          d \in HolidayOccurrences(lines, i)}
            /\ Len(ex) = Cardinality(HolidayOccurrences(lines, i))
            /\ \A k \in 1..Len(ex) :
                   /\ Len(ex[k]) = 15
                   /\ Weekday(ParseDate(SubSeq(ex[k], 1, 8)))
                          = Weekday(BlockAnchor(lines, i))
                   /\ SubSeq(ex[k], 9, 15) = BlockStartTime(lines, i)

\* a block that starts at 09:00 and has two exception dates
C2_Witness ==
    /\ pc = "done"
    /\ \E i \in EventStarts(lines) :
           /\ Len(BlockExdates(lines, i)) = 2
           /\ BlockStartTime(lines, i) = <<"T", "0", "9", "0", "0", "0", "0">>

\* ------------------------------------------------------------------- C3
\* the sessions whose blocks have been written, in the order of the blocks
RECURSIVE KnownOf(_)
KnownOf(cs) ==
    IF cs = <<>> THEN <<>>
    ELSE (IF Head(cs).day \in {"Monday", "Tuesday", "Wednesday", "Thursday",
                               "Friday", "Saturday", "Sunday"}
          THEN <<Head(cs)>> ELSE <<>>) \o KnownOf(Tail(cs))

Emitted == KnownOf(SubSeq(courses_list, 1, ci - 1))

\* the Monday of the week start_date lies in
MondayOf(d) == CHOOSE m \in (d - 6)..d : Weekday(m) = 0

DayCode(day) ==
    CASE day = "Monday" -> "MO" [] day = "Tuesday" -> "TU"
      [] day = "Wednesday" -> "WE" [] day = "Thursday" -> "TH"
      [] day = "Friday" -> "FR" [] day = "Saturday" -> "SA"
      [] day = "Sunday" -> "SU"

DayNumber(day) ==
    CASE day = "Monday" -> 0 [] day = "Tuesday" -> 1
      [] day = "Wednesday" -> 2 [] day = "Thursday" -> 3
      [] day = "Friday" -> 4 [] day = "Saturday" -> 5
      [] day = "Sunday" -> 6

\* the k-th block is the block of the k-th emitted session
BlocksMatchEmitted ==
    /\ NumBlocks(lines) = Len(Emitted)
    /\ \A k \in 1..Len(Emitted) :
           LET i == NthStart(lines, k)
           IN  /\ Prop(lines, i, "SUMMARY:") = esc(Summary(Emitted[k]))
               /\ BlockByday(lines, i) = DayCode(Emitted[k].day)
               /\ BlockStartTime(lines, i)
                      = <<"T">> \o FormatTime(Emitted[k].start)
               /\ IsPrefix(Str(Emitted[k].id) \o <<"-">>,
                           Prop(lines, i, "UID:"))

\* C3: each block's DTSTART date is the first date on or after the Monday of
\* start_date's week that falls on the session's weekday.
C3_AnchorInFirstWeek ==
    pc = "done" =>
    /\ BlocksMatchEmitted
    /\ \A k \in 1..Len(Emitted) :
           LET a == BlockAnchor(lines, NthStart(lines, k))
           IN  /\ MondayOf(start_date) <= a
               /\ a <= MondayOf(start_date) + 6
               /\ Weekday(a) = DayNumber(Emitted[k].day)

\* start_date is Thursday 2025-12-18 and the block of a Tuesday session is
\* anchored on Tuesday 2025-12-16
C3_Witness ==
    /\ pc = "done"
    /\ start_date = 17
    /\ \E i \in EventStarts(lines) :
           BlockByday(lines, i) = "TU" /\ BlockAnchor(lines, i) = 15

\* ------------------------------------------------------------------- C4
\* (weekday number, start, title) order of two sessions
ChronoLess(c, d) ==
    IF c.day # d.day THEN DayNumber(c.day) < DayNumber(d.day)
    ELSE IF c.start # d.start THEN c.start < d.start
    ELSE StrLess(c.title, d.title)

\* (day name as a str, start, title) order of two sessions
NameLess(c, d) ==
    IF c.day # d.day THEN DayRank(c.day) < DayRank(d.day)
    ELSE IF c.start # d.start THEN c.start < d.start
    ELSE StrLess(c.title, d.title)

\* C4 as stated: the event blocks are in ascending order of (weekday,
\* start time, title) of their sessions, weekday taken as Monday < Tuesday
\* < ... < Sunday.
C4_BlocksInWeekdayOrder ==
    pc = "done" =>
    /\ BlocksMatchEmitted
    /\ \A k \in 1..(Len(Emitted) - 1) : ~ChronoLess(Emitted[k + 1], Emitted[k])

\* C4 as amended: the event blocks are in ascending order of (day name
\* compared as a string, start time, title) of their sessions, whatever the
\* order of the input.
C4_BlocksInDayNameOrder ==
    pc = "done" =>
    /\ BlocksMatchEmitted
    /\ \A k \in 1..(Len(Emitted) - 1) : ~NameLess(Emitted[k + 1], Emitted[k])

\* the input lists a Tuesday session before a Sunday one, and the Sunday
\* block is written first
C4_Witness ==
    /\ pc = "done"
    /\ Len(courses) = 2
    /\ courses[1].day = "Tuesday"
    /\ courses[2].day = "Sunday"
    /\ BlockByday(lines, NthStart(lines, 1)) = "SU"
    /\ BlockByday(lines, NthStart(lines, 2)) = "TU"

\* ------------------------------------------------------------------- C5
\* number of times x occurs in the sequence cs
Count(cs, x) == Cardinality({k \in 1..Len(cs) : cs[k] = x})

\* C5: a session whose day label is no known weekday name gets no event
\* block and does not stop the generation, and every other session of the
\* input gets exactly one block.
C5_UnknownDaySkipped ==
    /\ (/\ pc = "loop"
        /\ ci <= Len(courses_list)
        /\ KnownOf(<<courses_list[ci]>>) = <<>>) => ENABLED SkipCourse
    /\ pc = "done" =>
           /\ BlocksMatchEmitted
           /\ NumBlocks(lines) = Len(KnownOf(courses))
           /\ \A k \in 1..Len(courses) :
                  Count(Emitted, courses[k])
                      = Count(KnownOf(courses), courses[k])

\* an unknown-day session sorted before a known one: one block is written
C5_Witness ==
    /\ pc = "done"
    /\ Len(courses_list) = 2
    /\ courses_list[1].day = "Savvato"
    /\ courses_list[2].day = "Tuesday"
    /\ NumBlocks(lines) = 1

\* ------------------------------------------------------------------- C6
\* text.split('\r\n') without the empty piece after the final terminator
RECURSIVE SplitFrom(_, _)
SplitFrom(text, cur) ==
    IF text = <<>> THEN (IF cur = <<>> THEN <<>> ELSE <<cur>>)
    ELSE IF IsPrefix(<<"CR", "LF">>, text)
         THEN <<cur>> \o SplitFrom(SubSeq(text, 3, Len(text)), <<>>)
         ELSE SplitFrom(Tail(text), Append(cur, Head(text)))

OutLines(text) == SplitFrom(text, <<>>)

\* every BEGIN:VEVENT is closed by an END:VEVENT before the next one opens
RECURSIVE Nested(_, _)
Nested(ls, open) ==
    IF ls = <<>> THEN ~open
    ELSE IF Head(ls) = <<"BEGIN:VEVENT">> THEN ~open /\ Nested(Tail(ls), TRUE)
    ELSE IF Head(ls) = <<"END:VEVENT">> THEN open /\ Nested(Tail(ls), FALSE)
    ELSE Nested(Tail(ls), open)

\* C6: the first line of the output is BEGIN:VCALENDAR and the last is
\* END:VCALENDAR, every BEGIN:VEVENT is matched by an END:VEVENT before the
\* next BEGIN:VEVENT, and with zero sessions there is no VEVENT block.
C6_EnvelopeAndBlocks ==
    pc = "done" =>
        LET ls == OutLines(output)
        IN  /\ ls[1] = <<"BEGIN:VCALENDAR">>
            /\ ls[Len(ls)] = <<"END:VCALENDAR">>
            /\ Nested(ls, FALSE)
            /\ courses = <<>> => EventStarts(ls) = {}

\* ------------------------------------------------------------------- C8
\* C8: every line break of the output is CR LF, the output ends with CR LF,
\* and each property written takes exactly one line of the output.
C8_OnlyCrlfLineBreaks ==
    pc = "done" =>
        /\ \A k \in 1..Len(output) :
               output[k] = "LF" => k > 1 /\ output[k - 1] = "CR"
        /\ SubSeq(output, Len(output) - 1, Len(output)) = <<"CR", "LF">>
        /\ OutLines(output) = lines

\* ------------------------------------------------------------------- C9
BlockUid(ls, i) == Prop(ls, i, "UID:")

\* the random suffix inside a UID value
UidSuffix(u) == u[Len(u) - 1]

\* C9 as stated: no two event blocks of a document carry the same UID.
C9_UidsDistinct ==
    pc = "done" =>
        \A i, j \in EventStarts(lines) :
            i # j => BlockUid(lines, i) # BlockUid(lines, j)

\* C9 as amended: two event blocks of a document carry the same UID exactly
\* when their sessions have the same id and drew the same random suffix; so
\* blocks of sessions with different ids never share a UID.
C9_UidsDistinctForDistinctIds ==
    pc = "done" =>
    /\ BlocksMatchEmitted
    /\ \A k, l \in 1..Len(Emitted) :
           LET uk == BlockUid(lines, NthStart(lines, k))
               ul == BlockUid(lines, NthStart(lines, l))
           IN  (uk = ul) <=> /\ Emitted[k].id = Emitted[l].id
                             /\ UidSuffix(uk) = UidSuffix(ul)

\* two blocks of sessions with different ids that drew the same suffix
C9_Witness ==
    /\ pc = "done"
    /\ Len(Emitted) = 2
    /\ Emitted[1].id # Emitted[2].id
    /\ UidSuffix(BlockUid(lines, NthStart(lines, 1)))
           = UidSuffix(BlockUid(lines, NthStart(lines, 2)))

\* ------------------------------------------------------------------- C7
\* a semicolon or comma of s that no backslash before it escapes
RECURSIVE HasBareSeparator(_)
HasBareSeparator(s) ==
    IF s = <<>> THEN FALSE
    ELSE IF Head(s) = "\\" THEN HasBareSeparator(SubSeq(s, 3, Len(s)))
    ELSE Head(s) \in {";", ","} \/ HasBareSeparator(Tail(s))

NumReserved(s) ==
    Cardinality({k \in 1..Len(s) : s[k] \in {"\\", ";", ","}})

\* C7: esc puts one backslash before every backslash, semicolon and comma,
\* leaves no unescaped semicolon or comma, and reading the result from left
\* to right gives the text back.
C7_EscapeInvertible ==
    /\ esc_pc \in {"escaped", "back"} =>
           /\ Len(esc_out) = Len(esc_s) + NumReserved(esc_s)
           /\ ~HasBareSeparator(esc_out)
    /\ esc_pc = "back" => esc_back = esc_s

\* a text holding all three reserved characters has been escaped and read
\* back
C7_Witness ==
    /\ esc_pc = "back"
    /\ esc_s = <<"\\", ";", "a", ",">>
    /\ Len(esc_out) = 7

Malformed(tr) == tr.ntd < 5 \/ parse_time_range(tr.time) = None

\* the rows of the tables of a table item, as the row selector takes them
ItemRows(item) == IF item.type = "table" THEN TableRows(item.rows) ELSE <<>>

RECURSIVE ItemsDataRows(_)
ItemsDataRows(items) ==
    IF items = <<>> THEN <<>>
    ELSE ItemRows(Head(items)) \o ItemsDataRows(Tail(items))

\* the data rows of a container, each at the one place it stands
TabDataRows(tab) ==
    IF DayHeadings(tab) # <<>> THEN ItemsDataRows(tab.items) ELSE TabRows(tab)

RECURSIVE DocDataRows(_)
DocDataRows(d) ==
    IF d = <<>> THEN <<>> ELSE TabDataRows(Head(d)) \o DocDataRows(Tail(d))

\* the rows the records of the result were built from
RecordRows == [k \in 1..Len(all_courses) |-> all_courses[k].original_html]

\* C11: when extraction has returned, a data row with fewer than 5 cells or
\* with an unreadable time range has produced no record, and every other
\* data row of the document has produced exactly one record.
C11_EveryGoodRowRecordedOnce ==
    p_pc = "done" =>
        \A k \in 1..Len(DocDataRows(doc)) :
            LET tr == DocDataRows(doc)[k]
            IN  IF Malformed(tr) THEN Count(RecordRows, tr) = 0
                ELSE Count(RecordRows, tr) = Count(DocDataRows(doc), tr)

\* ------------------------------------------------------------------ C12
\* a time cell of the form HH:MM<sep>HH:MM, blanks around the parts allowed
IsBlank(ch) == ch = " "

NotBlank(ch) == ~IsBlank(ch)

ValidRange(s) ==
    LET t == SelectSeq(s, NotBlank)
    IN  /\ Len(t) = 3
        /\ t[1] \in DOMAIN TimeValue
        /\ t[2] \in {"EN", "-"}
        /\ t[3] \in DOMAIN TimeValue

FirstTime(s) == TimeValue[SelectSeq(s, NotBlank)[1]]

SecondTime(s) == TimeValue[SelectSeq(s, NotBlank)[3]]

CurrentHeading ==
    DayHeadings(doc[p_tab])[Len(DayHeadings(doc[p_tab])) - Len(p_heads)]

\* the rows of the table a heading has of its own: the first table after
\* item h of the tab with no day heading in between
OwnTable(tab, h) ==
    LET own == {j \in h + 1..Len(tab.items) :
                   /\ tab.items[j].type = "table"
                   /\ \A m \in h + 1..j - 1 :
                          /\ tab.items[m].type # "table"
                          /\ ~\E n \in 1..Len(DayHeadings(tab)) :
                                 DayHeadings(tab)[n] = m}
    IN  IF own = {} THEN None
        ELSE Some(tab.items[CHOOSE j \in own : TRUE].rows)

IsSuffix(p, s) ==
    Len(p) <= Len(s) /\ SubSeq(s, Len(s) - Len(p) + 1, Len(s)) = p

\* C13: the rows read under a day heading are rows of the table the heading
\* has of its own; a heading without one has no rows read for it.
C13_RowsFromOwnTable ==
    p_pc = "hrows" =>
        /\ OwnTable(doc[p_tab], CurrentHeading) # None
        /\ IsSuffix(p_rows, TableRows(OwnTable(doc[p_tab], CurrentHeading)[1]))

\* ------------------------------------------------------------------ C20
\* the text the day of a container without day headings is taken from
ContainerLabel(tab) ==
    IF tab.aria # None /\ tab.aria[1] # "" THEN tab.aria[1]
    ELSE IF tab.id # None /\ tab.id[1] \in DOMAIN TabDayMap
    THEN TabDayMap[tab.id[1]] ELSE ""

Mapped(label) == IF label \in DOMAIN DAY_MAP THEN DAY_MAP[label] ELSE label

HasDayHeading(tab) ==
    \E k \in 1..Len(tab.items) :
        tab.items[k].type = "h" /\ tab.items[k].text \in DOMAIN DAY_MAP

\* the rows of the table that follows item h of tab t
FollowingRows(d, t, h) ==
    IF FindNextTable(d, t, h) = None THEN <<>>
    ELSE d[FindNextTable(d, t, h)[1][1]].items[FindNextTable(d, t, h)[1][2]].rows

SameFlagsByKey(before, after) ==
    \A k \in 1..Len(before), j \in 1..Len(after) :
        _course_key_from_course(before[k]) = _course_key_from_course(after[j])
            => before[k].active = after[j].active

\* C14: a restart of a process that has loaded the timetable leaves every
\* session, matched by its stable key, with the active flag it had before.
C14_FlagsSurviveRestart ==
    [][(Restart /\ _loaded) => SameFlagsByKey(COURSES, COURSES')]_vars

OnlyFlagsOfMatching(before, field, label, value) ==
    /\ Len(COURSES') = Len(before)
    /\ \A k \in 1..Len(before) :
           IF (IF field = "year" THEN before[k].year = <<label>>
               ELSE before[k][field] = label)
           THEN COURSES'[k] = [before[k] EXCEPT !.active = value]
           ELSE COURSES'[k] = before[k]

NothingChanges == COURSES' = CoursesLoaded /\ persist' = FileLoaded

\* the effect of one bulk operation with a label that is accepted or not
BulkEffect(field, label, value, accepted) ==
    IF accepted
    THEN /\ OnlyFlagsOfMatching(CoursesLoaded, field, label, value)
         /\ SetActive(COURSES', field, label, value) = COURSES'
    ELSE NothingChanges

AllActive(cs) == \A k \in 1..Len(cs) : cs[k].active

\* C17: when reset_schedule returns every session is active, the file holds
\* no inactive entry, and a restart from that file gives every session
\* active.
C17_ResetIsDurable ==
    [][reset_schedule =>
          /\ AllActive(COURSES')
          /\ AllActive(persist'.items)
          /\ AllActive(LoadedCourses(persist', timetable))]_vars

\* ------------------------------------------------------------------ C18
\* COURSES holds the sessions of the timetable, all of them, and
\* COURSES_BY_ID maps exactly their ids, each to its session
FullyPopulated ==
    /\ Len(COURSES) = Len(timetable)
    /\ \A k \in 1..Len(COURSES) :
           /\ COURSES[k].id = timetable[k].id
           /\ _course_key_from_course(COURSES[k])
                  = _course_key_from_course(timetable[k])
    /\ DOMAIN COURSES_BY_ID = {COURSES[k].id : k \in 1..Len(COURSES)}
    /\ \A i \in DOMAIN COURSES_BY_ID : COURSES[COURSES_BY_ID[i]].id = i

C19_ReadersSeeCompleteList ==
    \A t \in Threads :
        t_seen[t] # None => Len(t_seen[t][1]) = Len(timetable)

\* ------------------------------------------------------------------ C21
\* the dates the walk has visited, in order: the anchor date and the dates
\* at steps of seven days after it
WalkEnded == pc \in {"walked", "raised"}

NumVisited == Len(teaching_dates) + Len(exdates)

VisitedDate(k) == event_date + 7 * (k - 1)

InHolidayRange(d) ==
    \E k \in 1..Len(holidays) : holidays[k][1] <= d /\ d <= holidays[k][2]

HolidaysMet ==
    Cardinality({k \in 1..NumVisited : InHolidayRange(VisitedDate(k))})

\* C21: the walk ends by its loop condition and in no other way; then, for
\* weeks <= 0 it has visited no date, and for weeks >= 1 the last date
\* visited is a teaching date, the one that completes weeks teaching dates,
\* and the number of dates visited is weeks plus the holiday dates met.
C21_WalkStopsAtLastTeachingDate ==
    WalkEnded =>
        /\ pc = "walked"
        /\ weeks <= 0 => NumVisited = 0
        /\ weeks >= 1 =>
               /\ Len(teaching_dates) = weeks
               /\ teaching_dates[weeks] = VisitedDate(NumVisited)
               /\ ~InHolidayRange(VisitedDate(NumVisited))
               /\ NumVisited = weeks + HolidaysMet

=============================================================================
